---- MODULE Spec2Model ----
(***************************************************************************)
(* Model of the surebet (arbitrage) detector of surebet_scraper.py:        *)
(* SureBetDetector.find_surebets and the helpers it calls, and main()      *)
(* around it: the choice between the demo and the scraping of the sources, *)
(* the consolidation of the matches of the sources, the call of the        *)
(* detector and the export of the odds.  The last part models the cycles   *)
(* of the paper trading bot of paper_trading_bot.py.                       *)
(*                                                                         *)
(* Numbers.  The program computes with Python floats.  The model computes  *)
(* with exact rationals [n, d] in lowest terms (d > 0); an odds value is   *)
(* kept in hundredths (250 is 2.50) and converted with Dec.  round(x, 2)   *)
(* is modelled by Round2 (nearest hundredth, ties to even; no tie occurs   *)
(* in the stakes of the inputs below).  On every input generated below the *)
(* exact computation and the float computation of the program accept and   *)
(* reject the same markets and give the same rounded stakes.               *)
(*                                                                         *)
(* A Match object is referred to by its position in the list of matches.  *)
(* A dict is the sequence of its items in insertion order.                 *)
(***************************************************************************)
EXTENDS Integers, Sequences, FiniteSets, TLC

VARIABLES
    matches,      \* find_surebets argument: the list of Match objects
    total_stake,  \* find_surebets argument
    config,       \* SureBetDetector.config
    pc,           \* position of the run: "main" (main after the arguments),
                  \* "scraping" (in the loop over the sources), "scraped"
                  \* (main before consolidating), "idle" (before the call
                  \* of find_surebets), "loop", "returned", "raised",
                  \* "exported", "demo_done" (the demo returned), "aborted"
                  \* (an exception left main)
    done,         \* number of (match, market) pairs the loops have completed
    surebets,     \* the local list find_surebets appends to and returns
    best_odds,    \* local best_odds of the last _analyze_market call
    error,        \* the exception that ended the call or that
                  \* scrape_football_odds caught last, "none" if none
    previous,     \* what an earlier call on the same matches was given and
                  \* returned, NoCall before a second call
    supplied,     \* what scrape_football_odds returned, source by source
    all_matches,  \* main(): all_matches, the Match objects in their current state
    consolidated_matches,  \* main(): consolidated_matches, key -> Match object
    rows,         \* export_odds: the rows written to the odds file
    SUREBET_CONFIG,       \* config.py: the module-level dict (its margin keys)
    config_is_default,    \* the detector was built without argument: its
                          \* self.config is the SUREBET_CONFIG object itself
    args_demo,            \* main(): args.demo
    PLAYWRIGHT_AVAILABLE, \* module-level flag set by the import of playwright
    portfolio,        \* PaperTradingBot.portfolio (cash, positions, counters)
    entry_prices,     \* PaperTradingBot.entry_prices, pair -> price
    price_history,    \* PaperTradingBot.price_history, pair -> list of prices
    trades_executed,  \* run_cycle: the local counter at the end of the cycle
    cycle_trades,     \* the Trade objects the last run_cycle appended to
                      \* portfolio.trade_history, each with the cash before it
    cycles            \* number of run_cycle calls of run_continuous so far

vars == <<matches, total_stake, config, pc, done, surebets, best_odds, error,
          previous, supplied, all_matches, consolidated_matches, rows,
          SUREBET_CONFIG, config_is_default, args_demo, PLAYWRIGHT_AVAILABLE,
          portfolio, entry_prices, price_history, trades_executed, cycle_trades,
          cycles>>

\* the variables of main() around the detector
main_vars == <<supplied, all_matches, consolidated_matches, rows>>

\* the module-level configuration and the way the detector refers to it
module_vars == <<SUREBET_CONFIG, config_is_default>>

\* what main() reads before it scrapes
run_vars == <<args_demo, PLAYWRIGHT_AVAILABLE>>

\* the state of the paper trading bot (paper_trading_bot.py)
bot_vars == <<portfolio, entry_prices, price_history, trades_executed,
              cycle_trades, cycles>>

\* the variables of the surebet scraper (surebet_scraper.py)
scraper_vars == <<matches, total_stake, config, pc, done, surebets, best_odds,
                  error, previous, supplied, all_matches, consolidated_matches,
                  rows, SUREBET_CONFIG, config_is_default, args_demo,
                  PLAYWRIGHT_AVAILABLE>>

----------------------------------------------------------------------------
(* Bounds of the model *)

\* longest quote list of a generated market
MaxQuotes == 3

\* longest quote list of a generated market that follows the demonstration
\* match in the list of matches
MaxQuotesAfterDemo == 1

\* most markets, over all its matches, of a call that is repeated
MaxMarketsPerCall == 3

\* most matches the first and the second source supply
MaxMatchesFirst == 2
MaxMatchesSecond == 1

----------------------------------------------------------------------------
(* Exact rational arithmetic standing for float arithmetic *)

RECURSIVE GCD(_, _)
GCD(a, b) == IF b = 0 THEN a ELSE GCD(b, a % b)

Abs(x) == IF x < 0 THEN -x ELSE x

Norm(n, d) ==
    LET s == IF d < 0 THEN -1 ELSE 1
        g == GCD(Abs(n), Abs(d))
    IN  [n |-> (s * n) \div g, d |-> (s * d) \div g]

R(i) == [n |-> i, d |-> 1]

\* an odds value given in hundredths, as a number
Dec(h) == Norm(h, 100)

RAdd(a, b) == Norm(a.n * b.d + b.n * a.d, a.d * b.d)
RSub(a, b) == Norm(a.n * b.d - b.n * a.d, a.d * b.d)
RMul(a, b) == Norm(a.n * b.n, a.d * b.d)
\* a / b for b # 0 (the callers raise ZeroDivisionError before dividing by 0)
RDiv(a, b) == Norm(a.n * b.d, a.d * b.n)
RLt(a, b) == a.n * b.d < b.n * a.d
RLe(a, b) == a.n * b.d <= b.n * a.d
RAbs(a)   == [n |-> Abs(a.n), d |-> a.d]

\* round(x, 2): the nearest multiple of 1/100, a tie going to the even one
Round2(x) ==
    LET q     == x.n \div x.d
        r     == x.n % x.d
        lo    == q * 100 + ((r * 100) \div x.d)
        r2    == (r * 100) % x.d
        cents == IF 2 * r2 > x.d THEN lo + 1
                 ELSE IF 2 * r2 < x.d THEN lo
                 ELSE IF lo % 2 = 0 THEN lo ELSE lo + 1
    IN  Norm(cents, 100)

----------------------------------------------------------------------------
(* SureBetDetector._analyze_market and its helpers *)

\* lines 343-347: outcomes = {} filled in list order; the dict is the
\* sequence of its items in insertion order
RECURSIVE GroupByOutcome(_, _)
GroupByOutcome(odds_list, outcomes) ==
    IF odds_list = <<>> THEN outcomes
    ELSE LET odd   == Head(odds_list)
             known == \E k \in 1..Len(outcomes) : outcomes[k].outcome = odd.outcome
             next  == IF known
                      THEN [k \in 1..Len(outcomes) |->
                              IF outcomes[k].outcome = odd.outcome
                              THEN [outcomes[k] EXCEPT !.odds = Append(@, odd)]
                              ELSE outcomes[k]]
                      ELSE Append(outcomes, [outcome |-> odd.outcome, odds |-> <<odd>>])
         IN  GroupByOutcome(Tail(odds_list), next)

\* the first item of the list whose key is minimal
PyMin(odds) ==
    LET i == CHOOSE i \in 1..Len(odds) :
                 /\ \A j \in 1..Len(odds) : odds[j].value >= odds[i].value
                 /\ \A j \in 1..(i - 1) : odds[j].value > odds[i].value
    IN  odds[i]

\* line 352: max(odds, key=lambda x: x.value) returns the first item of the
\* list whose key is maximal
PyMax(odds) ==
    LET i == CHOOSE i \in 1..Len(odds) :
                 /\ \A j \in 1..Len(odds) : odds[j].value <= odds[i].value
                 /\ \A j \in 1..(i - 1) : odds[j].value < odds[i].value
    IN  odds[i]

\* lines 350-353: best_odds, a dict outcome -> Odd, as its items in order
BestOdds(odds_list) ==
    LET outcomes == GroupByOutcome(odds_list, <<>>)
    IN  [k \in 1..Len(outcomes) |->
            [outcome |-> outcomes[k].outcome, odd |-> PyMax(outcomes[k].odds)]]

\* line 385 / 398-399: sum(1 / odd.value ...) over the first k items
RECURSIVE SumInverse(_, _)
SumInverse(best, k) ==
    IF k = 0 THEN R(0)
    ELSE RAdd(SumInverse(best, k - 1), RDiv(R(1), Dec(best[k].odd.value)))

\* 1 / odd.value raises ZeroDivisionError for a value of 0
DividesByZero(best) == \E k \in 1..Len(best) : best[k].odd.value = 0

\* _calculate_margin, for best odds without a zero value
calculate_margin(best) ==
    LET sum_inverse == SumInverse(best, Len(best))
    IN  IF RLe(R(1), sum_inverse) THEN R(0)
        ELSE RMul(RSub(R(1), sum_inverse), R(100))

\* the stake without the division by total_weight
StakeOfUnnormalised(weight, total_weight, stake_total) ==
    RMul(weight, R(stake_total))

\* line 404: stake = (weight / total_weight) * total_stake
StakeOf(weight, total_weight, stake_total) ==
    RMul(RDiv(weight, total_weight), R(stake_total))

\* the stakes with every entry attributed to the bookmaker of the first entry
calculate_stakes_one_bookmaker(best, stake_total) ==
    LET total_weight == SumInverse(best, Len(best))
    IN  [k \in 1..Len(best) |->
            LET weight == RDiv(R(1), Dec(best[k].odd.value))
                stake  == StakeOf(weight, total_weight, stake_total)
                expected_return == RMul(stake, Dec(best[k].odd.value))
            IN  [outcome         |-> best[k].outcome,
                 bookmaker       |-> best[1].odd.bookmaker,
                 odds            |-> best[k].odd.value,
                 stake           |-> Round2(stake),
                 expected_return |-> Round2(expected_return)]]

\* _calculate_stakes, for best odds without a zero value and a total weight
\* other than 0
calculate_stakes(best, stake_total) ==
    LET total_weight == SumInverse(best, Len(best))
    IN  [k \in 1..Len(best) |->
            LET weight == RDiv(R(1), Dec(best[k].odd.value))
                stake  == StakeOf(weight, total_weight, stake_total)
                expected_return == RMul(stake, Dec(best[k].odd.value))
            IN  [outcome         |-> best[k].outcome,
                 bookmaker       |-> best[k].odd.bookmaker,
                 odds            |-> best[k].odd.value,
                 stake           |-> Round2(stake),
                 expected_return |-> Round2(expected_return)]]

RECURSIVE SumStakes(_, _)
SumStakes(stakes, k) ==
    IF k = 0 THEN R(0) ELSE RAdd(SumStakes(stakes, k - 1), stakes[k].stake)

\* _calculate_profit, for a non-empty list of stakes
calculate_profit(stakes) ==
    RSub(stakes[1].expected_return, SumStakes(stakes, Len(stakes)))

\* line 370: roi = (guaranteed_profit / total_stake) * 100
Roi(guaranteed_profit, stake_total) ==
    RMul(RDiv(guaranteed_profit, R(stake_total)), R(100))

\* the acceptance filter without the test against margen_minimo
RejectedAboveOnly(margin, cfg) == RLt(cfg.margen_maximo, margin)

\* the acceptance filter without the test against margen_maximo
RejectedBelowOnly(margin, cfg) == RLt(margin, cfg.margen_minimo)

\* lines 358-363: the acceptance filter
Rejected(margin, cfg) ==
    \/ RLt(margin, cfg.margen_minimo)
    \/ RLt(cfg.margen_maximo, margin)

\* _analyze_market: what the call does, "kind" being "None" (return None),
\* "SureBet" (return the opportunity) or "raise" (an exception leaves it)
analyze_market(match, market, odds_list, stake_total, cfg) ==
    LET best   == BestOdds(odds_list)
        margin == calculate_margin(best)
        stakes == calculate_stakes(best, stake_total)
        profit == calculate_profit(stakes)
    IN  IF DividesByZero(best)
        THEN [kind |-> "raise", error |-> "ZeroDivisionError", best_odds |-> best]
        ELSE IF Rejected(margin, cfg)
        THEN [kind |-> "None", best_odds |-> best]
        ELSE IF SumInverse(best, Len(best)).n = 0 /\ Len(best) > 0
        THEN [kind |-> "raise", error |-> "ZeroDivisionError", best_odds |-> best]
        ELSE IF Len(best) = 0
        THEN [kind |-> "raise", error |-> "IndexError", best_odds |-> best]
        ELSE IF stake_total = 0
        THEN [kind |-> "raise", error |-> "ZeroDivisionError", best_odds |-> best]
        ELSE [kind |-> "SureBet", best_odds |-> best,
              surebet |-> [match             |-> match,
                           market            |-> market,
                           margin            |-> margin,
                           roi               |-> Roi(profit, stake_total),
                           stakes            |-> stakes,
                           total_stake       |-> stake_total,
                           guaranteed_profit |-> profit]]

----------------------------------------------------------------------------
(* Inputs of a call *)

\* config.py: SUREBET_CONFIG
MargenMinimo == 1
MargenMaximo == 10
StakeDefault == 10000

\* the outcome set of the match-result market "1X2"
Outcomes1X2 == {"1", "X", "2"}

\* odds values of the generated quotes, in hundredths: a negative value, zero,
\* and values whose reciprocals sum below, at and above 1
OddsValues == {-2000, 0, 105, 210, 320}

\* main(): config = SUREBET_CONFIG.copy(); config["margen_minimo"] = args.margen
Config(margen) == [margen_minimo |-> R(margen), margen_maximo |-> R(MargenMaximo)]

\* the arguments --stake and --margen of a run, one of them at a time away
\* from its default: a negative and a zero stake, a minimum of 0 and of 5
CallArgs ==
    ({-100, 0, StakeDefault} \X {MargenMinimo}) \cup ({StakeDefault} \X {0, 5})

\* quotes are created one after the other (timestamp = datetime.now()), the
\* sources taking turns
BookmakerAt(p) == IF p % 2 = 1 THEN "BetWarrior" ELSE "Codere"

Odd(bookmaker, outcome, value, timestamp) ==
    [bookmaker |-> bookmaker, outcome |-> outcome, value |-> value,
     timestamp |-> timestamp]

Match(home_team, away_team, league, odds) ==
    [home_team |-> home_team, away_team |-> away_team, league |-> league,
     odds |-> odds]

SeqsUpTo(S, n) == UNION {[1..k -> S] : k \in 0..n}

\* the quote lists of the generated markets, in arrival order
ArrivalLists(n) ==
    {[p \in 1..Len(sh) |-> Odd(BookmakerAt(p), sh[p][1], sh[p][2], p)] :
        sh \in SeqsUpTo(Outcomes1X2 \X OddsValues, n)}

GeneratedMatch(odds_list) ==
    Match("Racing Club", "Independiente", "Primera Division",
          <<[market |-> "1X2", odds_list |-> odds_list]>>)

\* simulate_surebet_example: the demonstration match
DemoMatch ==
    Match("Boca Juniors", "River Plate", "Primera Division",
          <<[market |-> "1X2", odds_list |-> <<
              Odd("BetWarrior", "1", 250, 1), Odd("BetWarrior", "X", 310, 2),
              Odd("BetWarrior", "2", 300, 3), Odd("Codere", "1", 235, 4),
              Odd("Codere", "X", 360, 5), Odd("Codere", "2", 315, 6),
              Odd("Bplay", "1", 240, 7), Odd("Bplay", "X", 320, 8),
              Odd("Bplay", "2", 330, 9), Odd("Betsson", "1", 238, 10),
              Odd("Betsson", "X", 325, 11), Odd("Betsson", "2", 320, 12)>>]>>)

MatchLists ==
    {<<>>, <<DemoMatch>>}
      \cup {<<GeneratedMatch(l)>> : l \in ArrivalLists(MaxQuotes)}
      \cup {<<DemoMatch, GeneratedMatch(l)>> : l \in ArrivalLists(MaxQuotesAfterDemo)}

----------------------------------------------------------------------------
(* SureBetDetector.find_surebets, one market per step *)

\* no earlier call
NoCall == [surebets |-> <<>>, config |-> <<>>, called |-> FALSE]

\* find_surebets called directly (simulate_surebet_example): nothing scraped,
\* consolidated or exported
NoMain ==
    /\ supplied = <<>>
    /\ all_matches = <<>>
    /\ consolidated_matches = <<>>
    /\ rows = <<>>

\* config.py, lines 97-99: the margin keys of SUREBET_CONFIG as imported
DefaultConfig == Config(MargenMinimo)

\* the detector was given a dict of its own (main, line 668: a copy) and
\* nothing has written to SUREBET_CONFIG
OwnConfig ==
    /\ SUREBET_CONFIG = DefaultConfig
    /\ config_is_default = FALSE

\* a run without --demo on an installation with Playwright
Scraping ==
    /\ args_demo = FALSE
    /\ PLAYWRIGHT_AVAILABLE = TRUE

\* paper_trading_bot.py, line 39
InitialCash == 100

\* PaperTradingBot.__init__, lines 40-50, no saved portfolio file
NewPortfolio ==
    [cash |-> R(InitialCash), positions |-> <<>>, total_trades |-> 0,
     winning_trades |-> 0, losing_trades |-> 0]

\* the bot has just been constructed and has run no cycle
NoBot ==
    /\ portfolio = NewPortfolio
    /\ entry_prices = <<>>
    /\ price_history = <<>>
    /\ trades_executed = 0
    /\ cycle_trades = <<>>
    /\ cycles = 0

\* match.odds.items() of the i-th match, each item with a reference to its
\* match (a Match object is referred to by its position in the list)
MarketsOf(ms, i) ==
    [k \in 1..Len(ms[i].odds) |->
        [match |-> i, market |-> ms[i].odds[k].market,
         odds_list |-> ms[i].odds[k].odds_list]]

\* lines 330-331: the (match, market, odds_list) triples in the order the
\* nested loops visit them
RECURSIVE MarketsFrom(_, _)
MarketsFrom(ms, i) ==
    IF i > Len(ms) THEN <<>> ELSE MarketsOf(ms, i) \o MarketsFrom(ms, i + 1)

Markets(ms) == MarketsFrom(ms, 1)

Init ==
    /\ matches \in MatchLists
    /\ \E args \in CallArgs :
           /\ total_stake = args[1]
           /\ config = Config(args[2])
    /\ pc = "idle"
    /\ done = 0
    /\ surebets = <<>>
    /\ best_odds = <<>>
    /\ error = "none"
    /\ previous = NoCall
    /\ NoMain
    /\ OwnConfig
    /\ Scraping
    /\ NoBot

\* line 328: the call starts with surebets = []
Call ==
    /\ pc = "idle"
    /\ pc' = "loop"
    /\ surebets' = <<>>
    /\ done' = 0
    /\ UNCHANGED <<matches, total_stake, config, best_odds, error, previous>>
    /\ UNCHANGED main_vars
    /\ UNCHANGED <<module_vars, run_vars, bot_vars>>

\* one pass of the inner loop that keeps only the opportunity found last
AnalyzeNextKeepingLast ==
    /\ pc = "loop"
    /\ done < Len(Markets(matches))
    /\ \E m \in {Markets(matches)[done + 1]} :
       \E r \in {analyze_market(m.match, m.market, m.odds_list, total_stake, config)} :
           /\ best_odds' = r.best_odds
           /\ pc' = IF r.kind = "raise" THEN "raised" ELSE "loop"
           /\ error' = IF r.kind = "raise" THEN r.error ELSE error
           /\ surebets' = IF r.kind = "SureBet" THEN <<r.surebet>> ELSE surebets
           /\ done' = IF r.kind = "raise" THEN done ELSE done + 1
    /\ UNCHANGED <<matches, total_stake, config, previous>>
    /\ UNCHANGED main_vars
    /\ UNCHANGED <<module_vars, run_vars, bot_vars>>

\* one pass of the inner loop that takes the quotes out of the market it
\* analyses (match.odds[market] = [])
AnalyzeNextConsuming ==
    /\ pc = "loop"
    /\ done < Len(Markets(matches))
    /\ \E m \in {Markets(matches)[done + 1]} :
       \E r \in {analyze_market(m.match, m.market, m.odds_list, total_stake, config)} :
           /\ best_odds' = r.best_odds
           /\ pc' = IF r.kind = "raise" THEN "raised" ELSE "loop"
           /\ error' = IF r.kind = "raise" THEN r.error ELSE error
           /\ surebets' = IF r.kind = "SureBet" THEN Append(surebets, r.surebet)
                          ELSE surebets
           /\ done' = IF r.kind = "raise" THEN done ELSE done + 1
           /\ matches' = [matches EXCEPT ![m.match].odds =
                              [k \in 1..Len(matches[m.match].odds) |->
                                  IF matches[m.match].odds[k].market = m.market
                                  THEN [market |-> m.market, odds_list |-> <<>>]
                                  ELSE matches[m.match].odds[k]]]
    /\ UNCHANGED <<total_stake, config, previous>>
    /\ UNCHANGED main_vars
    /\ UNCHANGED <<module_vars, run_vars, bot_vars>>

\* lines 330-334: one pass of the inner loop; an exception raised by
\* _analyze_market leaves find_surebets, which catches nothing
AnalyzeNext ==
    /\ pc = "loop"
    /\ done < Len(Markets(matches))
    /\ \E m \in {Markets(matches)[done + 1]} :
       \E r \in {analyze_market(m.match, m.market, m.odds_list, total_stake, config)} :
           /\ best_odds' = r.best_odds
           /\ pc' = IF r.kind = "raise" THEN "raised" ELSE "loop"
           /\ error' = IF r.kind = "raise" THEN r.error ELSE error
           /\ surebets' = IF r.kind = "SureBet" THEN Append(surebets, r.surebet)
                          ELSE surebets
           /\ done' = IF r.kind = "raise" THEN done ELSE done + 1
    /\ UNCHANGED <<matches, total_stake, config, previous>>
    /\ UNCHANGED main_vars
    /\ UNCHANGED <<module_vars, run_vars, bot_vars>>

\* line 336: return surebets
Return ==
    /\ pc = "loop"
    /\ done = Len(Markets(matches))
    /\ pc' = "returned"
    /\ UNCHANGED <<matches, total_stake, config, done, surebets, best_odds, error,
                   previous>>
    /\ UNCHANGED main_vars
    /\ UNCHANGED <<module_vars, run_vars, bot_vars>>

Next == Call \/ AnalyzeNext \/ Return

Spec == Init /\ [][Next]_vars

----------------------------------------------------------------------------
(* A second set of inputs: one market whose quotes carry any bookmaker and  *)
(* any observation time at any position of the list (Odd takes both as     *)
(* constructor arguments), with odds values that tie.                      *)

TieQuotes ==
    {Odd(b, o, v, t) : b \in {"BetWarrior", "Codere"}, o \in Outcomes1X2,
                       v \in {210, 320}, t \in {1, 2}}

InitTie ==
    /\ matches \in {<<GeneratedMatch(l)>> : l \in SeqsUpTo(TieQuotes, MaxQuotes)}
    /\ total_stake = StakeDefault
    /\ config = Config(MargenMinimo)
    /\ pc = "idle"
    /\ done = 0
    /\ surebets = <<>>
    /\ best_odds = <<>>
    /\ error = "none"
    /\ previous = NoCall
    /\ NoMain
    /\ OwnConfig
    /\ Scraping
    /\ NoBot

SpecTie == InitTie /\ [][Next]_vars

----------------------------------------------------------------------------
(* A third set of inputs: calls on matches with several markets, under      *)
(* several margin ranges, the call being repeated once on the same matches  *)
(* with the same or another range.                                          *)

\* SureBetDetector(config): the constructor stores any dict it is given
RangeConfig(lo, hi) == [margen_minimo |-> R(lo), margen_maximo |-> R(hi)]

\* the ranges (minimum, maximum) of a first call: the default, one with a
\* minimum below 0 and one with a maximum not greater than its minimum
FirstRanges == {<<MargenMinimo, MargenMaximo>>, <<-5, MargenMaximo>>, <<5, 5>>}

\* the ranges of a second call: those, one with the minimum raised and one
\* with the maximum lowered
Ranges == FirstRanges \cup {<<3, MargenMaximo>>, <<MargenMinimo, 4>>}

\* quote lists with margins 1.92 (the best quotes of the demonstration),
\* 4.76 (two quotes tying for the best of '1') and 0 (reciprocal sum above 1)
SampleLists ==
    {<<Odd("BetWarrior", "1", 250, 1), Odd("Codere", "X", 360, 2),
       Odd("Bplay", "2", 330, 3)>>,
     <<Odd("BetWarrior", "1", 210, 1), Odd("Codere", "1", 210, 2),
       Odd("BetWarrior", "2", 210, 3)>>,
     <<Odd("BetWarrior", "1", 105, 1), Odd("Codere", "2", 105, 2)>>}

\* the keys of match.odds, in insertion order
MarketNames == <<"1X2", "Over/Under", "Doble Oportunidad", "Ambos Marcan">>

\* _get_sample_data: the teams of the sample matches (Huracan written
\* without its accent)
SampleTeams == <<<<"Boca Juniors", "River Plate">>, <<"Racing Club", "Independiente">>,
                 <<"San Lorenzo", "Huracan">>>>

\* the ways of cutting a sequence of quote lists into consecutive non-empty
\* groups, a group being the markets of one match
RECURSIVE Groupings(_)
Groupings(f) ==
    IF f = <<>> THEN {<<>>}
    ELSE UNION {{<<SubSeq(f, 1, k)>> \o g : g \in Groupings(SubSeq(f, k + 1, Len(f)))} :
                   k \in 1..(IF Len(f) < Len(MarketNames) THEN Len(f)
                              ELSE Len(MarketNames))}

\* the i-th match of a call, its markets holding the quote lists of group
SampleMatch(i, group) ==
    LET teams == SampleTeams[((i - 1) % Len(SampleTeams)) + 1]
    IN  Match(teams[1], teams[2], "Primera Division",
              [k \in 1..Len(group) |->
                  [market |-> MarketNames[k], odds_list |-> group[k]]])

RerunMatchLists ==
    UNION {{[i \in 1..Len(g) |-> SampleMatch(i, g[i])] : g \in Groupings(f)} :
              f \in SeqsUpTo(SampleLists, MaxMarketsPerCall) \ {<<>>}}

InitRerun ==
    /\ matches \in RerunMatchLists
    /\ total_stake = StakeDefault
    /\ \E r \in FirstRanges : config = RangeConfig(r[1], r[2])
    /\ pc = "idle"
    /\ done = 0
    /\ surebets = <<>>
    /\ best_odds = <<>>
    /\ error = "none"
    /\ previous = NoCall
    /\ NoMain
    /\ OwnConfig
    /\ Scraping
    /\ NoBot

\* a second call that keeps the list of the first
RerunKeepingList ==
    /\ pc = "returned"
    /\ ~previous.called
    /\ previous' = [surebets |-> surebets, config |-> config, called |-> TRUE]
    /\ \E r \in Ranges : config' = RangeConfig(r[1], r[2])
    /\ pc' = "loop"
    /\ surebets' = surebets
    /\ done' = 0
    /\ UNCHANGED <<matches, total_stake, best_odds, error>>
    /\ UNCHANGED main_vars
    /\ UNCHANGED <<module_vars, run_vars, bot_vars>>

\* the caller keeps what the first call returned and calls find_surebets
\* again on the same matches and stake, on the same detector or on one built
\* with another range; line 328: the call starts with surebets = []
Rerun ==
    /\ pc = "returned"
    /\ ~previous.called
    /\ previous' = [surebets |-> surebets, config |-> config, called |-> TRUE]
    /\ \E r \in Ranges : config' = RangeConfig(r[1], r[2])
    /\ pc' = "loop"
    /\ surebets' = <<>>
    /\ done' = 0
    /\ UNCHANGED <<matches, total_stake, best_odds, error>>
    /\ UNCHANGED main_vars
    /\ UNCHANGED <<module_vars, run_vars, bot_vars>>

NextRerun == Call \/ AnalyzeNext \/ Return \/ Rerun

SpecRerun == InitRerun /\ [][NextRerun]_vars

----------------------------------------------------------------------------
(* main(): the matches of the sources are consolidated, the detector is    *)
(* called on the consolidated matches, the odds of the sources are         *)
(* exported.  A Match object of all_matches is referred to by the pair     *)
(* (position of its source, position in the list of the source).           *)

\* line 716: key = f"{match.home_team}|{match.away_team}"
Key(match) == match.home_team \o "|" \o match.away_team

\* key in consolidated_matches
HasKey(cons, key) == \E k \in 1..Len(cons) : cons[k].key = key

\* consolidated_matches[key], a reference
RefOf(cons, key) ==
    LET k == CHOOSE k \in 1..Len(cons) : cons[k].key = key IN cons[k].ref

\* lines 721-724: one market of a later match is merged into the odds of the
\* match that holds the key
MergeMarket(odds, market, quotes) ==
    IF \E k \in 1..Len(odds) : odds[k].market = market
    THEN [k \in 1..Len(odds) |->
             IF odds[k].market = market
             THEN [odds[k] EXCEPT !.odds_list = @ \o quotes]
             ELSE odds[k]]
    ELSE Append(odds, [market |-> market, odds_list |-> quotes])

\* lines 720-724: the markets of a later match, in the order of its dict
RECURSIVE MergeOdds(_, _)
MergeOdds(target, source) ==
    IF source = <<>> THEN target
    ELSE MergeOdds(MergeMarket(target, Head(source).market, Head(source).odds_list),
                   Tail(source))

\* lines 714-715: the Match objects in the order the loops visit them
RECURSIVE RefsFrom(_, _)
RefsFrom(all, b) ==
    IF b > Len(all) THEN <<>>
    ELSE [i \in 1..Len(all[b].matches) |-> <<b, i>>] \o RefsFrom(all, b + 1)

\* lines 714-724: the loops over the remaining Match objects; the first
\* object of a key is entered into consolidated_matches as it is, a later
\* one is merged into that object
RECURSIVE ConsolidateFrom(_, _, _)
ConsolidateFrom(refs, all, cons) ==
    IF refs = <<>> THEN [all |-> all, cons |-> cons]
    ELSE LET ref   == Head(refs)
             match == all[ref[1]].matches[ref[2]]
             key   == Key(match)
         IN  IF ~HasKey(cons, key)
             THEN ConsolidateFrom(Tail(refs), all,
                                  Append(cons, [key |-> key, ref |-> ref]))
             ELSE LET t == RefOf(cons, key)
                  IN  ConsolidateFrom(
                          Tail(refs),
                          [all EXCEPT ![t[1]].matches[t[2]].odds =
                                          MergeOdds(@, match.odds)],
                          cons)

\* export_odds: one row per quote of every Match object of all_matches, the
\* bookmaker column being the key of all_matches
RECURSIVE FlattenSeq(_)
FlattenSeq(ss) == IF ss = <<>> THEN <<>> ELSE Head(ss) \o FlattenSeq(Tail(ss))

RowsOfMatch(bookmaker, match) ==
    FlattenSeq([k \in 1..Len(match.odds) |->
        [p \in 1..Len(match.odds[k].odds_list) |->
            [bookmaker |-> bookmaker, league |-> match.league,
             home_team |-> match.home_team, away_team |-> match.away_team,
             market |-> match.odds[k].market,
             outcome |-> match.odds[k].odds_list[p].outcome,
             odds |-> match.odds[k].odds_list[p].value,
             timestamp |-> match.odds[k].odds_list[p].timestamp]]])

RowsOf(all) ==
    FlattenSeq([b \in 1..Len(all) |->
        FlattenSeq([i \in 1..Len(all[b].matches) |->
            RowsOfMatch(all[b].bookmaker, all[b].matches[i])])])

\* config.py BOOKMAKERS: the first two sources, in the order they are scraped
Sources == <<"BetWarrior", "Codere">>

\* the events a source may report: one pair of teams in two leagues, and the
\* same teams with home and away swapped
Events == {<<"Racing Club", "Independiente", "Primera Division">>,
           <<"Racing Club", "Independiente", "Copa Argentina">>,
           <<"Independiente", "Racing Club", "Primera Division">>}

\* the odds source b may report for an event: one quote, the same quote
\* twice, or quotes in two markets; the quotes of a source carry its name and
\* the time of its turn
SourceOdds(b) ==
    LET q == Odd(Sources[b], IF b = 1 THEN "1" ELSE "2", 210, b)
        o == Odd(Sources[b], IF b = 1 THEN "Over" ELSE "Under", 210, b)
    IN  {<<[market |-> "1X2", odds_list |-> <<q>>]>>,
         <<[market |-> "1X2", odds_list |-> <<q, q>>]>>,
         <<[market |-> "1X2", odds_list |-> <<q>>],
           [market |-> "Over/Under", odds_list |-> <<o>>]>>}

SourceMatches(b) == {Match(e[1], e[2], e[3], odds) : e \in Events, odds \in SourceOdds(b)}

\* lines 697-710: all_matches[bm_config["name"]] = matches, source by source
InitMain ==
    /\ \E first \in SeqsUpTo(SourceMatches(1), MaxMatchesFirst) :
       \E second \in SeqsUpTo(SourceMatches(2), MaxMatchesSecond) :
           supplied = <<[bookmaker |-> Sources[1], matches |-> first],
                        [bookmaker |-> Sources[2], matches |-> second]>>
    /\ all_matches = supplied
    /\ consolidated_matches = <<>>
    /\ rows = <<>>
    /\ matches = <<>>
    /\ total_stake = StakeDefault
    /\ config = Config(MargenMinimo)
    /\ pc = "scraped"
    /\ done = 0
    /\ surebets = <<>>
    /\ best_odds = <<>>
    /\ error = "none"
    /\ previous = NoCall
    /\ OwnConfig
    /\ Scraping
    /\ NoBot

\* lines 713-726 and 730: the consolidation loops, match_list and the
\* detector; main stands before the call of find_surebets
Consolidate ==
    /\ pc = "scraped"
    /\ \E c \in {ConsolidateFrom(RefsFrom(all_matches, 1), all_matches, <<>>)} :
           /\ all_matches' = c.all
           /\ consolidated_matches' = c.cons
           /\ matches' = [k \in 1..Len(c.cons) |->
                             c.all[c.cons[k].ref[1]].matches[c.cons[k].ref[2]]]
    /\ pc' = "idle"
    /\ UNCHANGED <<total_stake, config, done, surebets, best_odds, error, previous,
                   supplied, rows>>
    /\ UNCHANGED <<module_vars, run_vars, bot_vars>>

\* lines 743-744: exporter.export_odds(all_matches)
ExportOdds ==
    /\ pc = "returned"
    /\ rows' = RowsOf(all_matches)
    /\ pc' = "exported"
    /\ UNCHANGED <<matches, total_stake, config, done, surebets, best_odds, error,
                   previous, supplied, all_matches, consolidated_matches>>
    /\ UNCHANGED <<module_vars, run_vars, bot_vars>>

NextMain == Consolidate \/ Call \/ AnalyzeNext \/ Return \/ ExportOdds

SpecMain == InitMain /\ [][NextMain]_vars

----------------------------------------------------------------------------
(* A detector and the module-level SUREBET_CONFIG.  SureBetDetector.__init__ *)
(* (lines 323-324) keeps the dict it is given, it makes no copy, and its   *)
(* default argument is the SUREBET_CONFIG object: the detector of          *)
(* simulate_surebet_example (line 603) reads its thresholds from           *)
(* SUREBET_CONFIG at every market (lines 358-361); the detector of main    *)
(* (lines 668-669, 731) reads them from a copy.                            *)

\* the minimum margins another pass of the same process writes to
\* SUREBET_CONFIG["margen_minimo"]
OtherMinimums == {3, 5}

\* the content of the dict the detector was built with
GivenConfig == DefaultConfig

InitShared ==
    /\ matches \in RerunMatchLists
    /\ total_stake = StakeDefault
    /\ SUREBET_CONFIG = DefaultConfig
    /\ config_is_default \in BOOLEAN
    /\ config = GivenConfig
    /\ pc = "idle"
    /\ done = 0
    /\ surebets = <<>>
    /\ best_odds = <<>>
    /\ error = "none"
    /\ previous = NoCall
    /\ NoMain
    /\ Scraping
    /\ NoBot

\* another pass sets its threshold in the module-level dict,
\* SUREBET_CONFIG["margen_minimo"] = v, before or during the call of this
\* detector; a detector built without argument sees the new value
SetMargen ==
    /\ pc \in {"idle", "loop"}
    /\ \E v \in OtherMinimums :
           /\ SUREBET_CONFIG.margen_minimo # R(v)
           /\ SUREBET_CONFIG' = [SUREBET_CONFIG EXCEPT !.margen_minimo = R(v)]
    /\ config' = IF config_is_default THEN SUREBET_CONFIG' ELSE config
    /\ UNCHANGED <<matches, total_stake, pc, done, surebets, best_odds, error,
                   previous, config_is_default>>
    /\ UNCHANGED <<main_vars, run_vars, bot_vars>>

NextShared == Call \/ AnalyzeNext \/ Return \/ SetMargen

SpecShared == InitShared /\ [][NextShared]_vars

----------------------------------------------------------------------------
(* main() from the parsed arguments on: the demo branch, the fall-back     *)
(* when Playwright is missing, the scraping loop over the bookmakers, and  *)
(* then consolidation, detection and export as above.                      *)

\* longest list of matches a source returns in a run from the start
MaxMatchesPerSource == 1

\* what can happen to one bookmaker in the loop of lines 699-710:
\*   "browser"    init_browser raises (line 704, outside any try)
\*   "navigation" page.goto, wait_for_load_state or _extract_matches raises
\*                inside the try of scrape_football_odds (lines 210-230),
\*                which then returns []
\*   "ok"         scrape_football_odds returns the matches it extracted
ScrapeOutcomes == {"browser", "navigation", "ok"}

\* lines 660-669: the arguments are parsed; --stake and --margen at their
\* defaults, --demo given or not, Playwright installed or not
InitRun ==
    /\ args_demo \in BOOLEAN
    /\ PLAYWRIGHT_AVAILABLE \in BOOLEAN
    /\ total_stake = StakeDefault
    /\ config = Config(MargenMinimo)
    /\ SUREBET_CONFIG = DefaultConfig
    /\ config_is_default = FALSE
    /\ pc = "main"
    /\ matches = <<>>
    /\ done = 0
    /\ surebets = <<>>
    /\ best_odds = <<>>
    /\ error = "none"
    /\ previous = NoCall
    /\ NoMain
    /\ NoBot

\* lines 672-686: the demo branch; simulate_surebet_example (lines 574-606)
\* builds the demonstration match and a detector on SUREBET_CONFIG and
\* returns the first opportunity found, main reports it and returns
Demo ==
    /\ pc = "main"
    /\ args_demo
    /\ matches' = <<DemoMatch>>
    /\ \E m \in {Markets(<<DemoMatch>>)[1]} :
       \E r \in {analyze_market(m.match, m.market, m.odds_list, total_stake,
                                SUREBET_CONFIG)} :
           /\ best_odds' = r.best_odds
           /\ pc' = IF r.kind = "raise" THEN "aborted" ELSE "demo_done"
           /\ error' = IF r.kind = "raise" THEN r.error ELSE error
           /\ surebets' = IF r.kind = "SureBet" THEN <<r.surebet>> ELSE <<>>
    /\ UNCHANGED <<total_stake, config, done, previous>>
    /\ UNCHANGED <<main_vars, module_vars, run_vars, bot_vars>>

\* lines 689-697, Playwright missing: args.demo is set, after the demo
\* branch has been passed; the scraping block is skipped and main goes on
\* to the consolidation with all_matches = {}
Fallback ==
    /\ pc = "main"
    /\ ~args_demo
    /\ ~PLAYWRIGHT_AVAILABLE
    /\ args_demo' = TRUE
    /\ all_matches' = <<>>
    /\ supplied' = <<>>
    /\ pc' = "scraped"
    /\ UNCHANGED <<matches, total_stake, config, done, surebets, best_odds, error,
                   previous, consolidated_matches, rows, PLAYWRIGHT_AVAILABLE>>
    /\ UNCHANGED <<module_vars, bot_vars>>

\* lines 694-698, Playwright installed: the scraping block is entered
StartScraping ==
    /\ pc = "main"
    /\ ~args_demo
    /\ PLAYWRIGHT_AVAILABLE
    /\ all_matches' = <<>>
    /\ supplied' = <<>>
    /\ pc' = "scraping"
    /\ UNCHANGED <<matches, total_stake, config, done, surebets, best_odds, error,
                   previous, consolidated_matches, rows>>
    /\ UNCHANGED <<module_vars, run_vars, bot_vars>>

\* lines 699-710: one pass of the loop over the enabled bookmakers.  An
\* exception of init_browser leaves the async with blocks and main; an
\* exception inside scrape_football_odds is caught there and gives [].
ScrapeNext ==
    /\ pc = "scraping"
    /\ Len(all_matches) < Len(Sources)
    /\ \E outcome \in ScrapeOutcomes :
       \E found \in SeqsUpTo(SourceMatches(Len(all_matches) + 1), MaxMatchesPerSource) :
           /\ outcome = "navigation" => found = <<>>
           /\ outcome = "browser" => found = <<>>
           /\ IF outcome = "browser"
              THEN /\ pc' = "aborted"
                   /\ error' = "browser"
                   /\ UNCHANGED <<all_matches, supplied>>
              ELSE /\ all_matches' = Append(all_matches,
                                           [bookmaker |-> Sources[Len(all_matches) + 1],
                                            matches |-> found])
                   /\ supplied' = all_matches'
                   /\ pc' = IF Len(all_matches') = Len(Sources) THEN "scraped"
                            ELSE "scraping"
                   /\ error' = IF outcome = "navigation" THEN "navigation" ELSE error
    /\ UNCHANGED <<matches, total_stake, config, done, surebets, best_odds,
                   previous, consolidated_matches, rows>>
    /\ UNCHANGED <<module_vars, run_vars, bot_vars>>

NextRun ==
    \/ Demo \/ Fallback \/ StartScraping \/ ScrapeNext
    \/ Consolidate \/ Call \/ AnalyzeNext \/ Return \/ ExportOdds

SpecRun == InitRun /\ [][NextRun]_vars

----------------------------------------------------------------------------
(* The limits of SUREBET_CONFIG the detector is not given a use for:       *)
(* min_odds, max_odds and max_stake_per_bookmaker.  Markets with quotes    *)
(* below min_odds and above max_odds, and a stake above twice the limit of *)
(* one bookmaker.                                                          *)

\* config.py, lines 102-103: min_odds 1.1 and max_odds 50.0, in hundredths
MinOdds == 110
MaxOdds == 5000

\* config.py, line 101: max_stake_per_bookmaker
MaxStakePerBookmaker == 50000

\* longest quote list of a market of these runs
MaxQuotesLimits == 2

\* odds values below min_odds, inside the limits and above max_odds
LimitValues == {105, 210, 6000}

\* --stake: the default and a stake above twice max_stake_per_bookmaker
StakeArgs == {StakeDefault, 120000}

\* the quote lists over the values of set values, in arrival order
ArrivalListsOf(values, n) ==
    {[p \in 1..Len(sh) |-> Odd(BookmakerAt(p), sh[p][1], sh[p][2], p)] :
        sh \in SeqsUpTo(Outcomes1X2 \X values, n)}

\* markets in which at least two outcomes are quoted
InitLimits ==
    /\ \E l \in ArrivalListsOf(LimitValues, MaxQuotesLimits) :
           /\ Cardinality({l[p].outcome : p \in 1..Len(l)}) >= 2
           /\ matches = <<GeneratedMatch(l)>>
    /\ total_stake \in StakeArgs
    /\ config = Config(MargenMinimo)
    /\ pc = "idle"
    /\ done = 0
    /\ surebets = <<>>
    /\ best_odds = <<>>
    /\ error = "none"
    /\ previous = NoCall
    /\ NoMain
    /\ OwnConfig
    /\ Scraping
    /\ NoBot

SpecLimits == InitLimits /\ [][Next]_vars

----------------------------------------------------------------------------
(* The paper trading bot of paper_trading_bot.py: PaperTradingBot.run_cycle *)
(* and what it calls, one action per cycle.  Amounts, prices and           *)
(* quantities are exact rationals; prices and percentages of the tickers   *)
(* are whole numbers.  A dict is the sequence of its items [key, val] in   *)
(* insertion order.  The text a reason ends with (the formatted            *)
(* percentage) is left out; the timestamp of a Trade is left out.          *)

\* number of run_cycle calls of a run
MaxCycles == 2

DictHas(d, k) == \E i \in 1..Len(d) : d[i].key = k

DictGet(d, k, default) ==
    IF DictHas(d, k) THEN d[CHOOSE i \in 1..Len(d) : d[i].key = k].val ELSE default

DictPut(d, k, v) ==
    IF DictHas(d, k)
    THEN [i \in 1..Len(d) |-> IF d[i].key = k THEN [key |-> k, val |-> v] ELSE d[i]]
    ELSE Append(d, [key |-> k, val |-> v])

DictDel(d, k) == SelectSeq(d, LAMBDA it : it.key # k)

\* the arithmetic of the rationals with common factors taken out before
\* multiplying, for the long denominators of the amounts of the bot
QAdd(a, b) ==
    LET g == GCD(a.d, b.d)
    IN  Norm(a.n * (b.d \div g) + b.n * (a.d \div g), (a.d \div g) * b.d)
QSub(a, b) == QAdd(a, [n |-> -b.n, d |-> b.d])
QMul(a, b) ==
    LET g1 == GCD(Abs(a.n), b.d)
        g2 == GCD(Abs(b.n), a.d)
    IN  Norm((a.n \div g1) * (b.n \div g2), (a.d \div g2) * (b.d \div g1))
\* a / b for b > 0
QDiv(a, b) == QMul(a, [n |-> b.d, d |-> b.n])
QLt(a, b) ==
    LET g == GCD(a.d, b.d)
    IN  a.n * (b.d \div g) < b.n * (a.d \div g)
QLe(a, b) ==
    LET g == GCD(a.d, b.d)
    IN  a.n * (b.d \div g) <= b.n * (a.d \div g)
QMin(a, b) == IF QLe(a, b) THEN a ELSE b

\* the altcoin pairs of the tickers, in the order of the response
Symbols == <<"SOLUSDT", "XRPUSDT", "DOGEUSDT", "ADAUSDT">>

\* one item of the /ticker/24hr response
Ticker(lastPrice, priceChangePercent, quoteVolume) ==
    [lastPrice |-> lastPrice, priceChangePercent |-> priceChangePercent,
     quoteVolume |-> quoteVolume]

\* a pair at 100 after a day's fall of 4 %, and at 80 after a day's fall of
\* 20 %, each with a volume above every threshold
TickerSamples ==
    {Ticker(100, -4, 2000000), Ticker(80, -20, 2000000)}

\* the first pair of the response also at 96: 4 % below 100, a fall that
\* neither stops the loss of a position entered at 100 nor is a strong drop
SlightFall == Ticker(96, -4, 2000000)

\* get_all_tickers, lines 98-104: the response as a dict, {} on any failure
TickerDicts ==
    {[i \in 1..Len(Symbols) |-> [key |-> Symbols[i], val |-> f[i]]] :
        f \in {g \in [1..Len(Symbols) -> TickerSamples \cup {SlightFall}] :
                  \A i \in 2..Len(Symbols) : g[i] \in TickerSamples}}

\* pairs.sort(key=lambda x: x[1], reverse=True): by volume, largest first,
\* pairs of equal volume in their order in the dict
RECURSIVE SortByVolume(_, _)
SortByVolume(tickers, S) ==
    IF S = {} THEN <<>>
    ELSE LET i == CHOOSE i \in S :
                      \A j \in S :
                          \/ tickers[i].val.quoteVolume > tickers[j].val.quoteVolume
                          \/ /\ tickers[i].val.quoteVolume = tickers[j].val.quoteVolume
                             /\ i <= j
         IN  <<[symbol |-> tickers[i].key, volume |-> tickers[i].val.quoteVolume,
                data |-> tickers[i].val]>> \o SortByVolume(tickers, S \ {i})

\* get_top_altcoins(min_volume=300000, limit=150), lines 106-123, on the
\* response tickers of its own request (every pair of Symbols ends with USDT,
\* does not start with USD and is no stablecoin or major; fewer than 150)
get_top_altcoins(tickers) ==
    SortByVolume(tickers, {i \in 1..Len(tickers) : tickers[i].val.quoteVolume >= 300000})

\* ((current - prev) / prev) * 100
ChangePct(prev, current) == QMul(QDiv(QSub(current, prev), prev), R(100))

\* should_buy, lines 134-158, without the check of the open position
should_buy_ignoring_position(pf, pair, change_pct, volume) ==
    IF QLt(pf.cash, R(10)) THEN [flag |-> FALSE, reason |-> ""]
    ELSE IF /\ QLt(change_pct, R(-5)) /\ volume > 500000
            /\ QLe(R(10), QMin(QMul(pf.cash, Norm(20, 100)), R(25)))
    THEN [flag |-> TRUE, reason |-> "CAIDA_FUERTE"]
    ELSE IF /\ QLt(R(-5), change_pct) /\ QLt(change_pct, R(-3)) /\ volume > 1000000
            /\ QLe(R(10), QMin(QMul(pf.cash, Norm(15, 100)), R(20)))
    THEN [flag |-> TRUE, reason |-> "REBOTE_POTENCIAL"]
    ELSE [flag |-> FALSE, reason |-> ""]

\* should_buy, lines 134-158
should_buy(pf, pair, change_pct, volume) ==
    IF DictHas(pf.positions, pair) /\ QLt(R(0), DictGet(pf.positions, pair, R(0)))
    THEN [flag |-> FALSE, reason |-> ""]
    ELSE IF QLt(pf.cash, R(10)) THEN [flag |-> FALSE, reason |-> ""]
    ELSE IF /\ QLt(change_pct, R(-5)) /\ volume > 500000
            /\ QLe(R(10), QMin(QMul(pf.cash, Norm(20, 100)), R(25)))
    THEN [flag |-> TRUE, reason |-> "CAIDA_FUERTE"]
    ELSE IF /\ QLt(R(-5), change_pct) /\ QLt(change_pct, R(-3)) /\ volume > 1000000
            /\ QLe(R(10), QMin(QMul(pf.cash, Norm(15, 100)), R(20)))
    THEN [flag |-> TRUE, reason |-> "REBOTE_POTENCIAL"]
    ELSE [flag |-> FALSE, reason |-> ""]

\* should_sell, lines 160-180
should_sell(st, pair, current_price, change_pct) ==
    IF ~DictHas(st.portfolio.positions, pair)
       \/ QLe(DictGet(st.portfolio.positions, pair, R(0)), R(0))
    THEN [flag |-> FALSE, reason |-> ""]
    ELSE LET entry_price == DictGet(st.entry_prices, pair, current_price)
             profit_pct  == ChangePct(R(entry_price), R(current_price))
         IN  IF QLe(R(8), profit_pct) THEN [flag |-> TRUE, reason |-> "TAKE_PROFIT"]
             ELSE IF QLe(profit_pct, R(-5)) THEN [flag |-> TRUE, reason |-> "STOP_LOSS"]
             ELSE IF QLt(R(5), change_pct) /\ QLt(R(3), profit_pct)
             THEN [flag |-> TRUE, reason |-> "GANANCIA_RAPIDA"]
             ELSE [flag |-> FALSE, reason |-> ""]

\* a Trade object, with what the portfolio held just before it: the cash and
\* the quantity of the pair
Trade(pair, action, price, amount_usd, quantity, reason, pf) ==
    [pair |-> pair, action |-> action, price |-> price, amount_usd |-> amount_usd,
     quantity |-> quantity, reason |-> reason,
     cash_before |-> pf.cash,
     position_before |-> DictGet(pf.positions, pair, R(0))]

\* execute_buy, lines 182-201
execute_buy(st, pair, price, amount_usd, reason) ==
    LET quantity == QDiv(amount_usd, R(price))
        held     == DictGet(st.portfolio.positions, pair, R(0))
    IN  [st EXCEPT
            !.portfolio.cash = QSub(@, amount_usd),
            !.portfolio.positions = DictPut(@, pair, QAdd(held, quantity)),
            !.portfolio.total_trades = @ + 1,
            !.entry_prices = DictPut(@, pair, price),
            !.cycle_trades = Append(@, Trade(pair, "BUY", price, amount_usd, quantity,
                                             reason, st.portfolio))]

\* execute_sell with partial = False, lines 210-248, for a pair that has an
\* entry price
execute_sell(st, pair, price, reason) ==
    IF ~DictHas(st.portfolio.positions, pair) THEN st
    ELSE LET quantity    == DictGet(st.portfolio.positions, pair, R(0))
             amount_usd  == QMul(quantity, R(price))
             entry_price == DictGet(st.entry_prices, pair, price)
             profit_pct  == ChangePct(R(entry_price), R(price))
         IN  [st EXCEPT
                 !.portfolio.cash = QAdd(@, amount_usd),
                 !.portfolio.positions = DictPut(@, pair, R(0)),
                 !.portfolio.total_trades = @ + 1,
                 !.portfolio.winning_trades = IF QLt(R(0), profit_pct) THEN @ + 1 ELSE @,
                 !.portfolio.losing_trades = IF QLt(R(0), profit_pct) THEN @ ELSE @ + 1,
                 !.entry_prices = DictDel(@, pair),
                 !.cycle_trades = Append(@, Trade(pair, "SELL", price, amount_usd,
                                                  quantity, reason, st.portfolio))]

\* lines 295-309: one pass of the loop over the positions
SellOne(st, pair, tickers) ==
    IF /\ QLt(R(0), DictGet(st.portfolio.positions, pair, R(0)))
       /\ DictHas(tickers, pair)
    THEN LET current_price == DictGet(tickers, pair, <<>>).lastPrice
             history == DictGet(st.price_history, pair, <<>>)
             prev_price == IF Len(history) > 0 THEN history[Len(history)]
                           ELSE current_price
             change_pct == IF DictHas(st.price_history, pair)
                           THEN ChangePct(R(prev_price), R(current_price))
                           ELSE R(0)
         IN  CHOOSE r \in
                 {IF sell.flag
                  THEN [execute_sell(st, pair, current_price, sell.reason)
                           EXCEPT !.trades_executed = @ + 1]
                  ELSE st : sell \in {should_sell(st, pair, current_price, change_pct)}} :
                 TRUE
    ELSE st

\* lines 294-309: the loop over the keys the positions had when it started
RECURSIVE SellFrom(_, _, _, _)
SellFrom(st, keys, i, tickers) ==
    IF i > Len(keys) THEN st
    ELSE CHOOSE r \in {SellFrom(next, keys, i + 1, tickers) :
                          next \in {SellOne(st, keys[i], tickers)}} : TRUE

\* lines 317-342: one pass of the loop over the altcoins
BuyOne(st, altcoin, tickers) ==
    IF ~DictHas(tickers, altcoin.symbol) THEN st
    ELSE LET symbol == altcoin.symbol
             current_price == altcoin.data.lastPrice
             history == DictGet(st.price_history, symbol, <<>>)
             change_pct == IF Len(history) > 0
                           THEN ChangePct(R(history[Len(history)]), R(current_price))
                           ELSE R(altcoin.data.priceChangePercent)
             longer == Append(history, current_price)
             kept == IF Len(longer) > 5 THEN Tail(longer) ELSE longer
             seen == [st EXCEPT !.price_history = DictPut(@, symbol, kept)]
             cash == st.portfolio.cash
         IN  CHOOSE r \in
                 {IF buy.flag /\ QLe(R(10), max_amount)
                  THEN [execute_buy(seen, symbol, current_price, max_amount, buy.reason)
                           EXCEPT !.trades_executed = @ + 1]
                  ELSE seen :
                     buy \in {should_buy(st.portfolio, symbol, change_pct, altcoin.volume)},
                     max_amount \in {QMin(QMin(QMul(cash, Norm(20, 100)), R(25)),
                                          QSub(cash, R(5)))}} : TRUE

\* lines 313-342: the loop over the altcoins
RECURSIVE BuyFrom(_, _, _, _)
BuyFrom(st, altcoins, i, tickers) ==
    IF i > Len(altcoins) \/ st.trades_executed >= 3 THEN st
    ELSE CHOOSE r \in {BuyFrom(next, altcoins, i + 1, tickers) :
                          next \in {BuyOne(st, altcoins[i], tickers)}} : TRUE

\* the fields of the bot as one record
BotState ==
    [portfolio |-> portfolio, entry_prices |-> entry_prices,
     price_history |-> price_history, trades_executed |-> trades_executed,
     cycle_trades |-> cycle_trades]

\* run_cycle, lines 259-347: tickers is the response of the request of line
\* 266, altcoin_tickers the response of the request get_top_altcoins makes
\* (line 288); without tickers the cycle ends at line 269
run_cycle(st, tickers, altcoin_tickers) ==
    LET started == [st EXCEPT !.trades_executed = 0, !.cycle_trades = <<>>]
        keys == [i \in 1..Len(st.portfolio.positions) |-> st.portfolio.positions[i].key]
    IN  IF tickers = <<>> THEN started
        ELSE CHOOSE r \in
                 {IF ~QLt(sold.portfolio.cash, R(10)) /\ sold.trades_executed < 3
                  THEN BuyFrom(sold, get_top_altcoins(altcoin_tickers), 1, tickers)
                  ELSE sold : sold \in {SellFrom(started, keys, 1, tickers)}} : TRUE

\* the scraper is not part of the run of the bot
NoScraper ==
    /\ matches = <<>>
    /\ total_stake = StakeDefault
    /\ config = DefaultConfig
    /\ pc = "idle"
    /\ done = 0
    /\ surebets = <<>>
    /\ best_odds = <<>>
    /\ error = "none"
    /\ previous = NoCall
    /\ NoMain
    /\ OwnConfig
    /\ Scraping

\* save_portfolio, lines 70-82: what the file holds after an earlier run that
\* bought SOLUSDT, XRPUSDT and DOGEUSDT at 80 in its first cycle and ADAUSDT
\* at 80 in its second: the cash, the positions, the counters and the entry
\* prices (the price history is not saved)
SavedPortfolio ==
    [portfolio |->
        [cash |-> Norm(4096, 100),
         positions |-> <<[key |-> "SOLUSDT", val |-> Norm(1, 4)],
                         [key |-> "XRPUSDT", val |-> Norm(1, 5)],
                         [key |-> "DOGEUSDT", val |-> Norm(4, 25)],
                         [key |-> "ADAUSDT", val |-> Norm(16, 125)]>>,
         total_trades |-> 4, winning_trades |-> 0, losing_trades |-> 0],
     entry_prices |-> <<[key |-> "SOLUSDT", val |-> 80], [key |-> "XRPUSDT", val |-> 80],
                        [key |-> "DOGEUSDT", val |-> 80], [key |-> "ADAUSDT", val |-> 80]>>]

\* lines 424-426 and load_portfolio, lines 55-68:
\* bot = PaperTradingBot(initial_cash=100.0), without a portfolio file or with
\* the file of the earlier run
InitBot ==
    /\ \E loaded \in {[portfolio |-> NewPortfolio, entry_prices |-> <<>>],
                      SavedPortfolio} :
           /\ portfolio = loaded.portfolio
           /\ entry_prices = loaded.entry_prices
    /\ price_history = <<>>
    /\ trades_executed = 0
    /\ cycle_trades = <<>>
    /\ cycles = 0
    /\ NoScraper

\* run_continuous, lines 365-372: one more call of run_cycle; the second
\* request gets the same response as the first, or fails
RunCycle ==
    /\ cycles < MaxCycles
    /\ \E tickers \in TickerDicts \cup {<<>>} :
       \E altcoin_tickers \in {tickers, <<>>} :
       \E st \in {run_cycle(BotState, tickers, altcoin_tickers)} :
           /\ portfolio' = st.portfolio
           /\ entry_prices' = st.entry_prices
           /\ price_history' = st.price_history
           /\ trades_executed' = st.trades_executed
           /\ cycle_trades' = st.cycle_trades
    /\ cycles' = cycles + 1
    /\ UNCHANGED scraper_vars

NextBot == RunCycle

SpecBot == InitBot /\ [][NextBot]_vars

----------------------------------------------------------------------------
(* Reference definitions of the properties, computed from the inputs *)

QuotedOutcomes(l) == {l[i].outcome : i \in 1..Len(l)}

QuotesFor(l, o) == {l[i] : i \in {j \in 1..Len(l) : l[j].outcome = o}}

\* the largest odds value quoted for outcome o
MaxValue(l, o) ==
    CHOOSE v \in {q.value : q \in QuotesFor(l, o)} :
        \A q \in QuotesFor(l, o) : q.value <= v

HasZeroBest(l) == \E o \in QuotedOutcomes(l) : MaxValue(l, o) = 0

RECURSIVE ReciprocalSumOver(_, _)
ReciprocalSumOver(l, os) ==
    IF os = {} THEN R(0)
    ELSE LET o == CHOOSE x \in os : TRUE
         IN  RAdd(RDiv(R(1), Dec(MaxValue(l, o))), ReciprocalSumOver(l, os \ {o}))

\* s: the sum over the quoted outcomes of 1 / best odds
ReciprocalSum(l) == ReciprocalSumOver(l, QuotedOutcomes(l))

\* the arbitrage margin: 0 when s >= 1, else (1 - s) * 100
ArbitrageMargin(l) ==
    IF RLe(R(1), ReciprocalSum(l)) THEN R(0)
    ELSE RMul(RSub(R(1), ReciprocalSum(l)), R(100))

InRange(margin) ==
    RLe(config.margen_minimo, margin) /\ RLe(margin, config.margen_maximo)

AllMarkets == Markets(matches)

\* the opportunities of market m in the list built so far
Emitted(m) ==
    \E i \in 1..Len(surebets) :
        surebets[i].match = m.match /\ surebets[i].market = m.market

\* the quote list an opportunity was computed from
QuotesOf(sb) ==
    LET j == CHOOSE j \in 1..Len(AllMarkets) :
                 AllMarkets[j].match = sb.match /\ AllMarkets[j].market = sb.market
    IN  AllMarkets[j].odds_list

\* the market the last _analyze_market call was given
SomeAnalyzed == pc = "raised" \/ done >= 1
LastAnalyzed == IF pc = "raised" THEN AllMarkets[done + 1] ELSE AllMarkets[done]

AllQuotes ==
    UNION {{AllMarkets[j].odds_list[i] : i \in 1..Len(AllMarkets[j].odds_list)} :
              j \in 1..Len(AllMarkets)}

Tolerance == Norm(2, 100)

\* a call whose stake and odds values are all positive
WellFormedInput == total_stake > 0 /\ \A q \in AllQuotes : q.value > 0

\* the range of SUREBET_CONFIG
DefaultRange == config = Config(MargenMinimo)

\* x is within tol of target
Near(x, target, tol) == RLe(RAbs(RSub(x, target)), tol)

\* a range with its minimum below 0, or its maximum not greater than its
\* minimum
MalformedRange(cfg) ==
    \/ RLt(cfg.margen_minimo, R(0))
    \/ RLe(cfg.margen_maximo, cfg.margen_minimo)

\* the margin of market m, recomputed from its quotes, is inside the range
Accepted(m) == InRange(ArbitrageMargin(m.odds_list))

\* the markets among the first k the loops visit whose margin is accepted
AcceptedAmong(k) == SelectSeq(SubSeq(AllMarkets, 1, k), Accepted)

\* some outcome of quote list l has two quotes at its best odds value
HasTie(l) ==
    \E i, j \in 1..Len(l) :
        /\ i < j
        /\ l[i].outcome = l[j].outcome
        /\ l[i].value = l[j].value
        /\ l[i].value = MaxValue(l, l[i].outcome)

\* an event: home team, away team (in that order) and league
Identity(match) == <<match.home_team, match.away_team, match.league>>

\* the matches the sources supplied, in arrival order
SuppliedMatches ==
    LET refs == RefsFrom(supplied, 1)
    IN  [k \in 1..Len(refs) |-> supplied[refs[k][1]].matches[refs[k][2]]]

SuppliedIdentities == {Identity(SuppliedMatches[k]) : k \in 1..Len(SuppliedMatches)}

\* the quotes of a match for a market, none if it has no such market
OddsListOf(match, market) ==
    FlattenSeq([k \in 1..Len(match.odds) |->
        IF match.odds[k].market = market THEN match.odds[k].odds_list ELSE <<>>])

\* the market names the sources supplied for event id
SuppliedMarkets(id) ==
    UNION {{SuppliedMatches[k].odds[j].market : j \in 1..Len(SuppliedMatches[k].odds)} :
              k \in {k \in 1..Len(SuppliedMatches) : Identity(SuppliedMatches[k]) = id}}

\* the quotes the sources supplied for event id and a market, in arrival order
SuppliedQuotes(id, market) ==
    FlattenSeq([k \in 1..Len(SuppliedMatches) |->
        IF Identity(SuppliedMatches[k]) = id
        THEN OddsListOf(SuppliedMatches[k], market) ELSE <<>>])

\* supplied matches of the same home and away team have the same league
LeaguesAgree ==
    \A a, b \in SuppliedIdentities : (a[1] = b[1] /\ a[2] = b[2]) => a = b

----------------------------------------------------------------------------
(* The claims *)

\* C1: a market whose quotes do not cover every outcome of its outcome set
\* (two of the three outcomes of 1X2 quoted) yields no opportunity and raises
\* no error.  Stated for calls with positive odds and stake and the default
\* range, where no other error can interfere.
C1_IncompleteMarketSkipped ==
    (WellFormedInput /\ DefaultRange) =>
        /\ \A i \in 1..Len(surebets) :
               Cardinality(QuotedOutcomes(QuotesOf(surebets[i]))) = 2
                   => Outcomes1X2 \subseteq QuotedOutcomes(QuotesOf(surebets[i]))
        /\ pc = "raised" => Outcomes1X2 \subseteq QuotedOutcomes(LastAnalyzed.odds_list)

\* C2: for every outcome the quote selected as best has the maximum odds value
\* among the quotes of that outcome, and among the quotes that tie for the
\* maximum it is one with the earliest timestamp, wherever it stands in the list.
C2_BestIsMaxEarliest ==
    SomeAnalyzed =>
        LET l == LastAnalyzed.odds_list
        IN  /\ {best_odds[k].outcome : k \in 1..Len(best_odds)} = QuotedOutcomes(l)
            /\ \A k \in 1..Len(best_odds) :
                   LET q == best_odds[k].odd
                   IN  /\ q \in QuotesFor(l, best_odds[k].outcome)
                       /\ \A x \in QuotesFor(l, best_odds[k].outcome) :
                              /\ x.value <= q.value
                              /\ x.value = q.value => q.timestamp <= x.timestamp

\* C3: every returned opportunity has margin = (1 - s) * 100, s being the sum
\* over the market's outcomes of 1 / best odds.  Stated for calls with
\* positive odds and stake.
C3_MarginFormula ==
    WellFormedInput =>
        \A i \in 1..Len(surebets) :
            surebets[i].margin =
                RMul(RSub(R(1), ReciprocalSum(QuotesOf(surebets[i]))), R(100))

\* C4: a market is emitted only if its margin lies within
\* [margen_minimo, margen_maximo] inclusive: the margin stored in every
\* opportunity is inside the range, and so is the margin of its market as
\* recomputed from the quotes (a market whose margin is below the minimum or
\* above the maximum has no opportunity).
C4_MarginInRange ==
    \A i \in 1..Len(surebets) :
        /\ InRange(surebets[i].margin)
        /\ InRange(ArbitrageMargin(QuotesOf(surebets[i])))

\* a call has returned an opportunity after rejecting one market whose margin
\* is above the maximum, or below the minimum though positive
C4_Witness ==
    /\ WellFormedInput
    /\ pc = "returned"
    /\ Len(surebets) >= 1
    /\ \E j \in 1..done :
           LET margin == ArbitrageMargin(AllMarkets[j].odds_list)
           IN  /\ ~Emitted(AllMarkets[j])
               /\ \/ RLt(config.margen_maximo, margin)
                  \/ RLt(R(0), margin) /\ RLt(margin, config.margen_minimo)

\* C5: for every allowed range (minimum >= 0, including 0) a market whose
\* reciprocal sum s is >= 1 is never emitted as an opportunity.  Stated for
\* calls with positive odds and stake.
C5_NoArbitrageRejected ==
    WellFormedInput =>
        \A j \in 1..done :
            RLe(R(1), ReciprocalSum(AllMarkets[j].odds_list)) => ~Emitted(AllMarkets[j])

\* C6: in every returned opportunity the stakes sum to total_stake and the
\* expected return (stake * best odds) is the same for every outcome, both
\* within the rounding tolerance of 0.02.
C6_StakesBalanced ==
    \A i \in 1..Len(surebets) :
        LET sb == surebets[i]
        IN  /\ RLe(RAbs(RSub(SumStakes(sb.stakes, Len(sb.stakes)), R(sb.total_stake))),
                   Tolerance)
            /\ \A a, b \in 1..Len(sb.stakes) :
                   RLe(RAbs(RSub(sb.stakes[a].expected_return,
                                 sb.stakes[b].expected_return)), Tolerance)

\* an opportunity over three outcomes whose rounded stakes do not sum to
\* total_stake exactly
C6_Witness ==
    \E i \in 1..Len(surebets) :
        /\ WellFormedInput /\ DefaultRange
        /\ Len(surebets[i].stakes) = 3
        /\ SumStakes(surebets[i].stakes, 3) # R(surebets[i].total_stake)

\* C7: in every returned opportunity guaranteed_profit is the expected return
\* of an outcome (any of them) minus total_stake, and roi is
\* guaranteed_profit / total_stake * 100.  Stated for calls with positive odds
\* and stake and the default range.
C7_ProfitAndRoi ==
    (WellFormedInput /\ DefaultRange) =>
        \A i \in 1..Len(surebets) :
            LET sb == surebets[i]
            IN  /\ \A k \in 1..Len(sb.stakes) :
                       sb.guaranteed_profit =
                           RSub(sb.stakes[k].expected_return, R(sb.total_stake))
                /\ sb.roi = RMul(RDiv(sb.guaranteed_profit, R(sb.total_stake)), R(100))

\* C8: when a quote passed to find_surebets has a zero or negative odds value
\* the call ends in an error (any exception is taken for InvalidInput) and
\* does not return; no opportunity carries a stake computed from a
\* non-positive odds value.  Stated for a positive stake and the default range.
C8_NonPositiveOddsInvalidInput ==
    (total_stake > 0 /\ DefaultRange) =>
        /\ (\E q \in AllQuotes : q.value <= 0) => pc # "returned"
        /\ \A i \in 1..Len(surebets) :
               \A k \in 1..Len(surebets[i].stakes) : surebets[i].stakes[k].odds > 0

\* C9: when total_stake is zero or negative the call ends in an error (any
\* exception is taken for InvalidInput) and does not return, whatever the
\* list of matches; no opportunity has a zero or negative stake.  Stated for
\* positive odds and the default range.
C9_NonPositiveStakeInvalidInput ==
    ((\A q \in AllQuotes : q.value > 0) /\ DefaultRange) =>
        /\ total_stake <= 0 => pc # "returned"
        /\ \A i \in 1..Len(surebets) :
               /\ surebets[i].total_stake > 0
               /\ \A k \in 1..Len(surebets[i].stakes) : surebets[i].stakes[k].stake.n > 0

\* C10: a market with fewer than 2 distinct outcomes is never emitted as an
\* opportunity (the call is to fail instead).  Stated for calls with positive
\* odds and stake and the default range.
C10_SingleOutcomeNeverEmitted ==
    (WellFormedInput /\ DefaultRange) =>
        \A i \in 1..Len(surebets) :
            Cardinality(QuotedOutcomes(QuotesOf(surebets[i]))) >= 2

\* C11: with a malformed margin range (minimum below 0, or maximum not greater
\* than minimum) find_surebets fails: it analyses no market against that
\* range and does not return.
C11_MalformedRangeInvalidInput ==
    MalformedRange(config) => (done = 0 /\ pc # "returned")

\* C12: when a quote of the input has a zero or negative odds value the caller
\* receives no opportunity of a well-formed market (one whose quotes are all
\* positive), whether that market was processed before the malformed one or
\* after it.  Stated for a positive stake and the default range.
C12_NoPartialResult ==
    (total_stake > 0 /\ DefaultRange /\ pc = "returned"
        /\ \E q \in AllQuotes : q.value <= 0)
    => \A i \in 1..Len(surebets) :
           \E k \in 1..Len(QuotesOf(surebets[i])) : QuotesOf(surebets[i])[k].value <= 0

\* C13: a second call of find_surebets with the same matches, total_stake and
\* config returns the same sequence of opportunities as the first: the same
\* markets in the same order, the same bookmaker and odds per outcome, the
\* same margin, stakes, profit and roi.
C13_Idempotent ==
    (previous.called /\ previous.config = config /\ pc = "returned")
        => surebets = previous.surebets

\* a second call with the same range has returned an opportunity of a market
\* in which two quotes tie for the best odds of an outcome
C13_Witness ==
    /\ previous.called /\ previous.config = config /\ pc = "returned"
    /\ \E i \in 1..Len(surebets) : HasTie(QuotesOf(surebets[i]))

\* C14: after a second call on the same input under another range, no
\* opportunity of the first call whose margin is below the new minimum or
\* above the new maximum has its market in the result, and every market is
\* in the result exactly if its own margin lies inside the new range.
C14_Monotone ==
    (previous.called /\ pc = "returned") =>
        /\ \A i \in 1..Len(previous.surebets) :
               LET sb == previous.surebets[i]
               IN  (RLt(sb.margin, config.margen_minimo)
                       \/ RLt(config.margen_maximo, sb.margin))
                   => ~Emitted(sb)
        /\ \A m \in {AllMarkets[j] : j \in 1..Len(AllMarkets)} :
               Emitted(m) <=> Accepted(m)

\* a second call under a well-formed range has returned an opportunity,
\* after a first call under the default range that returned one whose margin
\* is below the new minimum
C14_Witness ==
    /\ previous.called /\ pc = "returned"
    /\ previous.config = Config(MargenMinimo)
    /\ ~MalformedRange(config)
    /\ Len(surebets) >= 1
    /\ \E i \in 1..Len(previous.surebets) :
           RLt(previous.surebets[i].margin, config.margen_minimo)

\* C15: after consolidation there is exactly one event for every combination
\* of home team, away team and league among the supplied matches: matches are
\* merged if and only if all three agree, so the same pair of teams in
\* another league, or with home and away swapped, is an event of its own.
C15_EventIdentity ==
    pc # "scraped" =>
        \A id \in SuppliedIdentities :
            Cardinality({k \in 1..Len(matches) : Identity(matches[k]) = id}) = 1

\* C16: after consolidation, for every supplied event and market name there
\* is a consolidated event with that home team, away team and league whose
\* quote list for the market is the concatenation, in arrival order, of the
\* quote lists the sources supplied for that event and market: every quote as
\* many times as supplied, none dropped, replaced or added.
C16_QuotesRetained ==
    pc # "scraped" =>
        \A id \in SuppliedIdentities :
            \A market \in SuppliedMarkets(id) :
                \E k \in 1..Len(matches) :
                    /\ Identity(matches[k]) = id
                    /\ OddsListOf(matches[k], market) = SuppliedQuotes(id, market)

\* C17: consolidation leaves its input unchanged: all_matches and the odds of
\* the Match objects of every source stay as the sources supplied them, and
\* the rows export_odds writes are those of the supplied quotes.  Stated for
\* supplies in which matches of the same teams have the same league.
C17_InputUnchanged ==
    LeaguesAgree =>
        /\ all_matches = supplied
        /\ pc = "exported" => rows = RowsOf(supplied)

\* C18: the list find_surebets builds holds exactly one opportunity for each
\* market visited so far whose margin is accepted and none for any other, in
\* the order the loops visit the markets; each opportunity carries the margin
\* and the best odds of its own market, whatever happened to the others.
C18_OnePerAcceptedMarket ==
    (pc = "loop" \/ pc = "returned") =>
        \E accepted \in {AcceptedAmong(done)} :
            /\ Len(surebets) = Len(accepted)
            /\ \A i \in 1..Len(surebets) :
                   /\ surebets[i].match = accepted[i].match
                   /\ surebets[i].market = accepted[i].market
                   /\ surebets[i].margin = ArbitrageMargin(accepted[i].odds_list)
                   /\ \A k \in 1..Len(surebets[i].stakes) :
                          surebets[i].stakes[k].odds =
                              MaxValue(accepted[i].odds_list,
                                       surebets[i].stakes[k].outcome)

\* a call under the default range has returned two opportunities of one
\* match, a market of that match between them being rejected
C18_Witness ==
    /\ pc = "returned"
    /\ config = Config(MargenMinimo)
    /\ \E a, b, c \in 1..Len(AllMarkets) :
           /\ a < b /\ b < c
           /\ AllMarkets[a].match = AllMarkets[c].match
           /\ Emitted(AllMarkets[a]) /\ ~Emitted(AllMarkets[b]) /\ Emitted(AllMarkets[c])

C20_FullPrecision ==
    (WellFormedInput /\ DefaultRange) =>
        \A i \in 1..Len(surebets) :
            LET sb     == surebets[i]
                s      == ReciprocalSum(QuotesOf(sb))
                return == RDiv(R(sb.total_stake), s)
                profit == RSub(return, R(sb.total_stake))
            IN  /\ \A k \in 1..Len(sb.stakes) :
                       /\ sb.stakes[k].stake =
                              RMul(RDiv(RDiv(R(1), Dec(sb.stakes[k].odds)), s),
                                   R(sb.total_stake))
                       /\ sb.stakes[k].expected_return = return
                /\ sb.guaranteed_profit = profit
                /\ sb.roi = RMul(RDiv(profit, R(sb.total_stake)), R(100))

\* C21: in every returned opportunity the stake plan has exactly one entry for
\* each outcome quoted in the market, and the bookmaker and odds of an entry
\* are those of one quote of that outcome, a quote with the best odds value;
\* for the opportunity just built they are those of the selected best quote.
C21_StakePlanPerOutcome ==
    /\ \A i \in 1..Len(surebets) :
           LET sb == surebets[i]
               l  == QuotesOf(sb)
           IN  /\ Len(sb.stakes) = Cardinality(QuotedOutcomes(l))
               /\ {sb.stakes[k].outcome : k \in 1..Len(sb.stakes)} = QuotedOutcomes(l)
               /\ \A k \in 1..Len(sb.stakes) :
                      /\ sb.stakes[k].odds = MaxValue(l, sb.stakes[k].outcome)
                      /\ \E q \in QuotesFor(l, sb.stakes[k].outcome) :
                             /\ q.bookmaker = sb.stakes[k].bookmaker
                             /\ q.value = sb.stakes[k].odds
    /\ (pc = "loop" /\ done >= 1 /\ Emitted(AllMarkets[done])) =>
           LET sb == surebets[Len(surebets)]
           IN  /\ Len(sb.stakes) = Len(best_odds)
               /\ \A k \in 1..Len(best_odds) :
                      /\ sb.stakes[k].outcome = best_odds[k].outcome
                      /\ sb.stakes[k].bookmaker = best_odds[k].odd.bookmaker
                      /\ sb.stakes[k].odds = best_odds[k].odd.value

\* an opportunity over three outcomes whose best quotes come from different
\* bookmakers, the market holding further quotes of other bookmakers
C21_Witness ==
    /\ WellFormedInput
    /\ \E i \in 1..Len(surebets) :
           /\ Len(surebets[i].stakes) = 3
           /\ Cardinality({surebets[i].stakes[k].bookmaker : k \in 1..3}) >= 2
           /\ Len(QuotesOf(surebets[i])) > 3

\* the margin of quote list l is inside the range of configuration cfg
InRangeOf(cfg, l) ==
    RLe(cfg.margen_minimo, ArbitrageMargin(l)) /\ RLe(ArbitrageMargin(l), cfg.margen_maximo)

\* C22: the markets a detector accepts are those inside the range of the
\* configuration it was built with, whatever another pass writes to its own
\* thresholds or to the module-level SUREBET_CONFIG before or during the call.
C22_PassesDoNotInterfere ==
    pc = "returned" =>
        \A j \in 1..Len(AllMarkets) :
            Emitted(AllMarkets[j]) <=> InRangeOf(GivenConfig, AllMarkets[j].odds_list)

\* C22, for a detector built with a dict of its own (main): the statement
\* holds
C22_OwnConfigIsolated ==
    (pc = "returned" /\ ~config_is_default) =>
        \A j \in 1..Len(AllMarkets) :
            Emitted(AllMarkets[j]) <=> InRangeOf(GivenConfig, AllMarkets[j].odds_list)

\* C23: no step of find_surebets changes the events, their quote lists, a
\* quote, the stake or the config of the detector; an opportunity already in
\* the list is not changed while the call goes on, and the list an earlier
\* call returned is not changed by a later call.
C23_NoSideEffects ==
    [][/\ matches' = matches
       /\ total_stake' = total_stake
       /\ (pc \in {"idle", "loop"} => config' = config)
       /\ (pc = "loop" =>
              /\ Len(surebets') >= Len(surebets)
              /\ SubSeq(surebets', 1, Len(surebets)) = surebets)
       /\ (previous.called => previous' = previous)]_vars

C23_Witness ==
    /\ pc = "returned"
    /\ previous.called
    /\ Len(previous.surebets) >= 1
    /\ Len(surebets) >= 2

\* C24: a source whose acquisition fails never ends the run: main is never
\* left by an exception of the scraping loop, and once detection has
\* returned, its input is the consolidation of what the sources supplied.
C24_FailingSourceTolerated ==
    /\ pc # "aborted"
    /\ (pc \in {"returned", "exported"} /\ PLAYWRIGHT_AVAILABLE) =>
           Len(supplied) = Len(Sources)

\* C24, for failures inside scrape_football_odds (navigation, extraction):
\* the statement holds
C24_NavigationFailureTolerated ==
    /\ (pc = "aborted" => error = "browser")
    /\ (error = "navigation" => pc # "aborted")
    /\ (pc \in {"returned", "exported"} /\ PLAYWRIGHT_AVAILABLE) =>
           Len(supplied) = Len(Sources)

\* C27: when Playwright is not installed, whether --demo was given or not,
\* main, once past its first test, has evaluated the demonstration market
\* and holds its opportunity; it does not consolidate or detect over an
\* empty set of matches.
C27_DemoWhenPlaywrightMissing ==
    (~PLAYWRIGHT_AVAILABLE /\ pc # "main") =>
        /\ pc = "demo_done"
        /\ matches = <<DemoMatch>>
        /\ Len(surebets) = 1

\* C27, when --demo was given: the demo branch evaluates the demonstration
\* market and holds its opportunity
C27_DemoWhenAsked ==
    pc = "demo_done" => matches = <<DemoMatch>> /\ Len(surebets) = 1

\* the amount opportunity sb stakes at bookmaker b, summed over its entries
RECURSIVE StakedAt(_, _, _)
StakedAt(sb, b, k) ==
    IF k = 0 THEN R(0)
    ELSE RAdd(StakedAt(sb, b, k - 1),
              IF sb.stakes[k].bookmaker = b THEN sb.stakes[k].stake ELSE R(0))

\* C25: no returned opportunity has a stake entry whose odds are below
\* min_odds (1.1) or above max_odds (50.0).
C25_OddsWithinLimits ==
    \A i \in 1..Len(surebets) :
        \A k \in 1..Len(surebets[i].stakes) :
            /\ surebets[i].stakes[k].odds >= MinOdds
            /\ surebets[i].stakes[k].odds <= MaxOdds

\* every stake entry of opportunity sb has odds inside [min_odds, max_odds]
OddsWithinLimits(sb) ==
    \A k \in 1..Len(sb.stakes) :
        sb.stakes[k].odds >= MinOdds /\ sb.stakes[k].odds <= MaxOdds

\* C26: in every returned opportunity (of those whose odds are inside the
\* limits of C25) the amount staked at one bookmaker, summed over the
\* outcomes it has the best quote for, is at most max_stake_per_bookmaker
\* (50000), whatever the total stake.
C26_StakePerBookmakerCapped ==
    \A i \in 1..Len(surebets) :
        \A k \in 1..Len(surebets[i].stakes) :
            OddsWithinLimits(surebets[i]) =>
            RLe(StakedAt(surebets[i], surebets[i].stakes[k].bookmaker,
                         Len(surebets[i].stakes)),
                R(MaxStakePerBookmaker))

\* C26, for the default stake: the statement holds, the whole stake being
\* below the limit of one bookmaker
C26_DefaultStakeBelowCap ==
    total_stake = StakeDefault => C26_StakePerBookmakerCapped

\* the buys the last cycle executed
CycleBuys == SelectSeq(cycle_trades, LAMBDA t : t.action = "BUY")

\* the pairs with an open position
OpenPairs ==
    {portfolio.positions[i].key : i \in {j \in 1..Len(portfolio.positions) :
                                            QLt(R(0), portfolio.positions[j].val)}}

\* C28: one run_cycle executes at most 3 trades, sells and buys together.
C28_AtMostThreeTrades ==
    trades_executed <= 3 /\ Len(cycle_trades) <= 3

\* C28, for the buys alone: the statement holds
C28_AtMostThreeBuys ==
    Len(CycleBuys) <= 3

\* C29: a buy of the rebound strategy invests at most min(15 % of the cash
\* available before it, 20), a buy of the strong-drop strategy at most
\* min(20 % of that cash, 25).
C29_InvestmentPerStrategy ==
    \A k \in 1..Len(CycleBuys) :
        LET t == CycleBuys[k]
        IN  /\ t.reason = "REBOTE_POTENCIAL" =>
                   QLe(t.amount_usd, QMin(QMul(t.cash_before, Norm(15, 100)), R(20)))
            /\ t.reason = "CAIDA_FUERTE" =>
                   QLe(t.amount_usd, QMin(QMul(t.cash_before, Norm(20, 100)), R(25)))

\* C29, for the strong-drop strategy: the statement holds
C29_StrongDropCapped ==
    \A k \in 1..Len(CycleBuys) :
        CycleBuys[k].reason = "CAIDA_FUERTE" =>
            QLe(CycleBuys[k].amount_usd,
                QMin(QMul(CycleBuys[k].cash_before, Norm(20, 100)), R(25)))

\* C30: the cash is never negative; every executed buy spends at least 10,
\* leaves at least 5 of cash, and is for a pair without open position.
C30_CashNeverNegative ==
    /\ QLe(R(0), portfolio.cash)
    /\ \A k \in 1..Len(CycleBuys) :
           LET t == CycleBuys[k]
           IN  /\ QLe(R(10), t.amount_usd)
               /\ QLe(R(5), QSub(t.cash_before, t.amount_usd))
               /\ ~QLt(R(0), t.position_before)

C30_Witness ==
    /\ cycles >= 2
    /\ Len(CycleBuys) >= 1
    /\ \E k \in 1..Len(cycle_trades) : cycle_trades[k].action = "SELL"
    /\ \E p \in OpenPairs : \A k \in 1..Len(cycle_trades) : cycle_trades[k].pair # p

====
